---- MODULE Spec2Model ----
(***************************************************************************)
(* Model of prepy.preprocess(): a line-oriented conditional preprocessor.  *)
(* Lines are sequences of one-character strings, so that the directive     *)
(* regular expressions and the expression evaluator are computed on the    *)
(* text itself.  Values are the Python values the evaluator can produce:   *)
(* None, booleans and integers, with Python's truthiness and `and`.        *)
(***************************************************************************)
EXTENDS Integers, Sequences, FiniteSets, TLC

VARIABLES
    pc,        \* "loop": inside the for loop; "done": returned; "raised": an exception left preprocess()
    lineno,    \* enumerate(..., 1) counter: number of the line processed last
    stack,     \* list of (emit, lineno) frames
    emit,      \* the emission flag (a Python value, tested for truthiness)
    defines,   \* the definitions mapping: a function from a set of names to values
    outfile,   \* the lines written to the output, in order
    err,       \* the exception that left preprocess(), if any
    lines,     \* history: the lines of infile.readlines() consumed so far
    written,   \* history: the numbers of the lines that were written to outfile
    emits,     \* history: emits[i] is the emission flag in force when line i was read
    evalcall,  \* history: TRUE iff the last step called _eval
    npass,     \* history: number of preprocess() calls made on this mapping
    undefd     \* history: names removed by UNDEF and not bound again since

vars ==
    <<pc, lineno, stack, emit, defines, outfile, err, lines, written, emits, evalcall, npass, undefd>>

----------------------------------------------------------------------------
(* Bounds *)

MaxLines ==
    4

MaxCondLines ==
    7

MaxPasses ==
    3

MaxLexLines ==
    2

----------------------------------------------------------------------------
(* Python values *)

NoneVal ==
    [t |-> "None", v |-> 0]

BoolVal(b) ==
    [t |-> "bool", v |-> IF b THEN 1 ELSE 0]

IntVal(n) ==
    [t |-> "int", v |-> n]

Truthy(x) ==
    x.t # "None" /\ x.v # 0

PyNot(x) ==
    BoolVal(~Truthy(x))

\* Python's `a and b` on two already computed values.
PyAnd(a, b) ==
    IF Truthy(a) THEN b ELSE a

----------------------------------------------------------------------------
(* Characters and regular-expression primitives *)

Digits ==
    {"0", "1", "2", "3", "4", "5", "6", "7", "8", "9"}

Letters ==
    {"a", "b", "c", "d", "e", "f", "g", "h", "i", "j", "k", "l", "m",
     "n", "o", "p", "q", "r", "s", "t", "u", "v", "w", "x", "y", "z",
     "A", "B", "C", "D", "E", "F", "G", "H", "I", "J", "K", "L", "M",
     "N", "O", "P", "Q", "R", "S", "T", "U", "V", "W", "X", "Y", "Z"}

\* \w
Word ==
    Letters \cup Digits \cup {"_"}

\* \s
Space ==
    {" ", "\t", "\n", "\r"}

SetMax(S) ==
    CHOOSE m \in S : \A n \in S : n <= m

Take(s, n) ==
    SubSeq(s, 1, n)

Drop(s, n) ==
    SubSeq(s, n + 1, Len(s))

StartsWith(s, p) ==
    Len(s) >= Len(p) /\ Take(s, Len(p)) = p

\* Length of the longest prefix of s made of characters of cls (a greedy X*).
SpanLen(s, cls) ==
    SetMax({n \in 0..Len(s) : \A i \in 1..n : s[i] \in cls})

\* Length of the longest prefix of s without a newline (a greedy .* ).
DotLen(s) ==
    SetMax({n \in 0..Len(s) : \A i \in 1..n : s[i] # "\n"})

\* A group that did not take part in the match (None in m.groups()).
NoGroup ==
    <<"<None>">>

\* A failed match (None).
NoMatch ==
    [matched |-> FALSE, groups |-> <<>>]

Match(gs) ==
    [matched |-> TRUE, groups |-> gs]

\* \s{min,}(.+) at the start of s: the whitespace run is greedy and gives
\* characters back until .+ can take at least one character.  The result is
\* the text of (.+), or NoGroup when there is no way to match.
SpaceThenDot(s, min) ==
    LET w == SpanLen(s, Space)
        cands == {i \in min..w : i < Len(s) /\ s[i + 1] # "\n"}
    IN  IF cands = {} THEN NoGroup
        ELSE LET after == Drop(s, SetMax(cands))
             IN  Take(after, DotLen(after))

\* \s+(\w+) at the start of s: the text of (\w+), or NoGroup.
SpaceThenWord(s) ==
    LET w == SpanLen(s, Space)
        after == Drop(s, w)
        n == SpanLen(after, Word)
    IN  IF w >= 1 /\ n >= 1 THEN Take(after, n) ELSE NoGroup

----------------------------------------------------------------------------
(* The directive patterns.  Each is applied with re.match, i.e. anchored   *)
(* at the start of its argument only; none is anchored at the end.         *)

\* Variant of _PREFIX whose pattern is r'^#\s*(.+)'.
_PREFIX_OneHash(line) ==
    IF ~StartsWith(line, <<"#">>) THEN NoMatch
    ELSE LET g == SpaceThenDot(Drop(line, 1), 0)
         IN  IF g = NoGroup THEN NoMatch ELSE Match(<<g>>)

\* _PREFIX = re.compile(r'^##\s*(.+)').match
_PREFIX(line) ==
    IF ~StartsWith(line, <<"#", "#">>) THEN NoMatch
    ELSE LET g == SpaceThenDot(Drop(line, 2), 0)
         IN  IF g = NoGroup THEN NoMatch ELSE Match(<<g>>)

\* _IF = re.compile(r'IF\s+(.+)').match
_IF(line) ==
    IF ~StartsWith(line, <<"I", "F">>) THEN NoMatch
    ELSE LET g == SpaceThenDot(Drop(line, 2), 1)
         IN  IF g = NoGroup THEN NoMatch ELSE Match(<<g>>)

\* _ELIF = re.compile(r'ELIF\s+.+').match : the pattern has no group.
_ELIF(line) ==
    IF ~StartsWith(line, <<"E", "L", "I", "F">>) THEN NoMatch
    ELSE LET g == SpaceThenDot(Drop(line, 4), 1)
         IN  IF g = NoGroup THEN NoMatch ELSE Match(<<>>)

\* The text the .+ of the ELIF pattern matches (the expression the
\* directive carries); the pattern does not capture it.
ElifText(line) ==
    SpaceThenDot(Drop(line, 4), 1)

\* KW\b for a keyword ending in a word character.
KeywordBoundary(line, kw) ==
    /\ StartsWith(line, kw)
    /\ (Len(line) = Len(kw) \/ line[Len(kw) + 1] \notin Word)

\* _ELSE = re.compile(r'ELSE\b').match
_ELSE(line) ==
    IF KeywordBoundary(line, <<"E", "L", "S", "E">>) THEN Match(<<>>) ELSE NoMatch

\* _ENDIF = re.compile(r'ENDIF\b').match
_ENDIF(line) ==
    IF KeywordBoundary(line, <<"E", "N", "D", "I", "F">>) THEN Match(<<>>) ELSE NoMatch

\* _DEFINE = re.compile(r'DEFINE\s+(\w+)\s*(?:=\s*(.+))?').match
\* m.groups() always has two entries; the second is None when the optional
\* part did not match.
_DEFINE(line) ==
    IF ~StartsWith(line, <<"D", "E", "F", "I", "N", "E">>) THEN NoMatch
    ELSE LET rest == Drop(line, 6)
             name == SpaceThenWord(rest)
         IN  IF name = NoGroup THEN NoMatch
             ELSE LET rest2 == Drop(rest, SpanLen(rest, Space) + Len(name))
                      rest3 == Drop(rest2, SpanLen(rest2, Space))
                      expr == IF StartsWith(rest3, <<"=">>)
                                  THEN SpaceThenDot(Drop(rest3, 1), 0)
                                  ELSE NoGroup
                  IN  Match(<<name, expr>>)

\* _UNDEF = re.compile(r'UNDEF(?:INE)?\s+(\w+)').match
_UNDEF(line) ==
    LET long == IF StartsWith(line, <<"U", "N", "D", "E", "F", "I", "N", "E">>)
                    THEN SpaceThenWord(Drop(line, 8)) ELSE NoGroup
        short == IF StartsWith(line, <<"U", "N", "D", "E", "F">>)
                     THEN SpaceThenWord(Drop(line, 5)) ELSE NoGroup
    IN  IF long # NoGroup THEN Match(<<long>>)
        ELSE IF short # NoGroup THEN Match(<<short>>)
        ELSE NoMatch

\* _IFDEF = re.compile(r'IFDEF\s+(\w+)').match
_IFDEF(line) ==
    IF ~StartsWith(line, <<"I", "F", "D", "E", "F">>) THEN NoMatch
    ELSE LET g == SpaceThenWord(Drop(line, 5))
         IN  IF g = NoGroup THEN NoMatch ELSE Match(<<g>>)

\* _IFNDEF = re.compile(r'IFNDEF\s+(\w+)').match
_IFNDEF(line) ==
    IF ~StartsWith(line, <<"I", "F", "N", "D", "E", "F">>) THEN NoMatch
    ELSE LET g == SpaceThenWord(Drop(line, 6))
         IN  IF g = NoGroup THEN NoMatch ELSE Match(<<g>>)

\* Variant of Dispatch without the final else: raise.
Dispatch_UnknownAsText(line) ==
    LET directive == _PREFIX(line)
    IN  IF ~directive.matched THEN "text"
        ELSE LET payload == directive.groups[1]
             IN  IF _IF(payload).matched THEN "IF"
                 ELSE IF _ELIF(payload).matched THEN "ELIF"
                 ELSE IF _ELSE(payload).matched THEN "ELSE"
                 ELSE IF _ENDIF(payload).matched THEN "ENDIF"
                 ELSE IF _IFDEF(payload).matched THEN "IFDEF"
                 ELSE IF _IFNDEF(payload).matched THEN "IFNDEF"
                 ELSE IF _DEFINE(payload).matched THEN "DEFINE"
                 ELSE IF _UNDEF(payload).matched THEN "UNDEF"
                 ELSE "text"

\* The branch of the if/elif cascade of preprocess() a line takes:
\* "text" when _PREFIX does not match, otherwise the first keyword pattern
\* that matches the payload, in the order of the code, or "unknown".
Dispatch(line) ==
    LET directive == _PREFIX(line)
    IN  IF ~directive.matched THEN "text"
        ELSE LET payload == directive.groups[1]
             IN  IF _IF(payload).matched THEN "IF"
                 ELSE IF _ELIF(payload).matched THEN "ELIF"
                 ELSE IF _ELSE(payload).matched THEN "ELSE"
                 ELSE IF _ENDIF(payload).matched THEN "ENDIF"
                 ELSE IF _IFDEF(payload).matched THEN "IFDEF"
                 ELSE IF _IFNDEF(payload).matched THEN "IFNDEF"
                 ELSE IF _DEFINE(payload).matched THEN "DEFINE"
                 ELSE IF _UNDEF(payload).matched THEN "UNDEF"
                 ELSE "unknown"

\* directive.group(1) of a directive line.
Payload(line) ==
    _PREFIX(line).groups[1]

----------------------------------------------------------------------------
(* The expression evaluator.  eval() is modelled on the expressions the    *)
(* inputs below use: an atom, or  atom + atom,  or  atom > atom,  where an *)
(* atom is a decimal literal or a name, optionally followed by a comment.  *)

DigitVal ==
    [c \in Digits |->
        CASE c = "0" -> 0 [] c = "1" -> 1 [] c = "2" -> 2 [] c = "3" -> 3
          [] c = "4" -> 4 [] c = "5" -> 5 [] c = "6" -> 6 [] c = "7" -> 7
          [] c = "8" -> 8 [] c = "9" -> 9]

RECURSIVE ParseInt(_)
ParseInt(s) ==
    IF s = <<>> THEN 0
    ELSE ParseInt(Take(s, Len(s) - 1)) * 10 + DigitVal[s[Len(s)]]

\* The expression without its trailing comment.
StripComment(e) ==
    LET hashes == {i \in 1..Len(e) : e[i] = "#"}
    IN  IF hashes = {} THEN e
        ELSE Take(e, (CHOOSE i \in hashes : \A j \in hashes : i <= j) - 1)

RECURSIVE Tokens(_)
Tokens(s) ==
    IF s = <<>> THEN <<>>
    ELSE IF Head(s) \in Space THEN Tokens(Tail(s))
    ELSE IF Head(s) \in Word
         THEN LET n == SpanLen(s, Word) IN <<Take(s, n)>> \o Tokens(Drop(s, n))
    ELSE <<(<<Head(s)>>)>> \o Tokens(Tail(s))

IsNumber(tok) ==
    \A i \in 1..Len(tok) : tok[i] \in Digits

IsName(tok) ==
    /\ tok[1] \in Letters \cup {"_"}
    /\ \A i \in 1..Len(tok) : tok[i] \in Word

IsAtom(tok) ==
    IsNumber(tok) \/ IsName(tok)

Operators ==
    {<<"+">>, <<">">>}

Ok(v) ==
    [exc |-> "none", val |-> v]

Raises(e) ==
    [exc |-> e, val |-> NoneVal]

\* The names of the builtins namespace that denote values of the model.
Builtins ==
    (<<"N", "o", "n", "e">> :> NoneVal)
        @@ (<<"T", "r", "u", "e">> :> BoolVal(TRUE))
        @@ (<<"F", "a", "l", "s", "e">> :> BoolVal(FALSE))

\* A literal, or a name looked up in the globals and then in the builtins.
EvalAtom(tok, globals) ==
    IF IsNumber(tok) THEN Ok(IntVal(ParseInt(tok)))
    ELSE IF tok \in DOMAIN globals THEN Ok(globals[tok])
    ELSE IF tok \in DOMAIN Builtins THEN Ok(Builtins[tok])
    ELSE Raises("NameError")

IsNum(x) ==
    x.t \in {"int", "bool"}

\* a + b : defined on integers and booleans, TypeError with None.
PyAdd(a, b) ==
    IF IsNum(a) /\ IsNum(b) THEN Ok(IntVal(a.v + b.v)) ELSE Raises("TypeError")

\* a > b : Python 2 orders None below every number.
PyGt(a, b) ==
    IF a.t = "None" THEN Ok(BoolVal(FALSE))
    ELSE IF b.t = "None" THEN Ok(BoolVal(TRUE))
    ELSE Ok(BoolVal(a.v > b.v))

\* eval(expression, globals)
PyEval(expression, globals) ==
    LET toks == Tokens(StripComment(expression))
    IN  IF Len(toks) = 1 /\ IsAtom(toks[1]) THEN EvalAtom(toks[1], globals)
        ELSE IF Len(toks) = 3 /\ IsAtom(toks[1]) /\ toks[2] \in Operators /\ IsAtom(toks[3])
             THEN LET a == EvalAtom(toks[1], globals)
                      b == EvalAtom(toks[3], globals)
                  IN  IF a.exc # "none" THEN a
                      ELSE IF b.exc # "none" THEN b
                      ELSE IF toks[2] = <<"+">> THEN PyAdd(a.val, b.val)
                      ELSE PyGt(a.val, b.val)
        ELSE Raises("SyntaxError")

\* Variant of _eval that evaluates without the definitions.
_eval_NoDefines(expression, defs) ==
    IF expression = NoGroup THEN Raises("TypeError")
    ELSE PyEval(expression, <<>>)

\* _eval(expression): evaluates against a copy of the definitions; eval()
\* of None (a group that did not match) is a TypeError.
_eval(expression, defs) ==
    IF expression = NoGroup THEN Raises("TypeError")
    ELSE PyEval(expression, defs)

\* m.group(i): IndexError ("no such group") when the pattern has fewer groups.
Group(m, i) ==
    IF i <= Len(m.groups) THEN [exc |-> "none", text |-> m.groups[i]]
    ELSE [exc |-> "IndexError", text |-> NoGroup]

----------------------------------------------------------------------------
(* The right-hand sides of the assignments of preprocess().  Each yields   *)
(* [exc, val, called]: the exception raised ("none" when there is none),   *)
(* the value assigned, and whether _eval was called.                       *)

Kept(v) ==
    [exc |-> "none", val |-> v, called |-> FALSE]

\* flag and _eval(expression): the evaluator runs only when flag is truthy.
AndEval(flag, expression, defs) ==
    IF ~Truthy(flag) THEN Kept(flag)
    ELSE LET r == _eval(expression, defs)
         IN  [exc |-> r.exc, val |-> r.val, called |-> TRUE]

\* Variant of IfEmit that evaluates the expression first:
\* emit = _eval(...) and stack[-1][0]
IfEmit_Eager(top, payload, defs) ==
    LET r == _eval(Group(_IF(payload), 1).text, defs)
    IN  IF r.exc # "none" THEN [exc |-> r.exc, val |-> NoneVal, called |-> TRUE]
        ELSE [exc |-> "none", val |-> PyAnd(r.val, top), called |-> TRUE]

\* Variant of IfEmit without `stack[-1][0] and`.
IfEmit_Ungated(top, payload, defs) ==
    AndEval(BoolVal(TRUE), Group(_IF(payload), 1).text, defs)

\* IF:  emit = stack[-1][0] and _eval(_IF(line).group(1))
IfEmit(top, payload, defs) ==
    IF ~Truthy(top) THEN Kept(top)
    ELSE LET g == Group(_IF(payload), 1)
         IN  IF g.exc # "none" THEN [exc |-> g.exc, val |-> NoneVal, called |-> FALSE]
             ELSE AndEval(top, g.text, defs)

\* ELIF:  if not emit: emit = stack[-1][0] and _eval(_ELIF(line).group(1))
ElifEmit(cur, top, payload, defs) ==
    IF Truthy(cur) THEN Kept(cur)
    ELSE IF ~Truthy(top) THEN Kept(top)
    ELSE LET g == Group(_ELIF(payload), 1)
         IN  IF g.exc # "none" THEN [exc |-> g.exc, val |-> NoneVal, called |-> FALSE]
             ELSE AndEval(top, g.text, defs)

\* Variant of ElseEmit without `stack[-1][0] and`.
ElseEmit_Ungated(cur, top) ==
    PyNot(cur)

\* Variant of ElseEmit without `not`.
ElseEmit_Keep(cur, top) ==
    PyAnd(top, cur)

\* ELSE:  emit = stack[-1][0] and not emit
ElseEmit(cur, top) ==
    PyAnd(top, PyNot(cur))

\* Variant of IfdefEmit testing the value bound to the name.
IfdefEmit_Value(top, name, defs) ==
    PyAnd(top, BoolVal(name \in DOMAIN defs /\ Truthy(defs[name])))

\* IFDEF:  emit = stack[-1][0] and _IFDEF(line).group(1) in defines
IfdefEmit(top, name, defs) ==
    PyAnd(top, BoolVal(name \in DOMAIN defs))

\* IFNDEF:  emit = stack[-1][0] and _IFNDEF(line).group(1) not in defines
IfndefEmit(top, name, defs) ==
    PyAnd(top, BoolVal(name \notin DOMAIN defs))

\* defines[name] = value
Bind(defs, name, value) ==
    [n \in DOMAIN defs \cup {name} |-> IF n = name THEN value ELSE defs[n]]

\* del defines[name]
Unbind(defs, name) ==
    [n \in DOMAIN defs \ {name} |-> defs[n]]

\* Variant of DefineStep without `if emit`.
DefineStep_Always(cur, payload, defs) ==
    LET groups == _DEFINE(payload).groups
    IN  IF Len(groups) = 1
        THEN [exc |-> "none", defs |-> Bind(defs, groups[1], NoneVal), called |-> FALSE]
        ELSE LET r == _eval(groups[2], defs)
             IN  IF r.exc # "none" THEN [exc |-> r.exc, defs |-> defs, called |-> TRUE]
                 ELSE [exc |-> "none", defs |-> Bind(defs, groups[1], r.val), called |-> TRUE]

\* DEFINE: the mapping after the directive, as [exc, defs, called].
\*   if emit:
\*       groups = _DEFINE(line).groups()
\*       if len(groups) == 1: value = None
\*       else: value = _eval(groups[1])
\*       defines[groups[0]] = value
DefineStep(cur, payload, defs) ==
    IF ~Truthy(cur) THEN [exc |-> "none", defs |-> defs, called |-> FALSE]
    ELSE LET groups == _DEFINE(payload).groups
         IN  IF Len(groups) = 1
             THEN [exc |-> "none", defs |-> Bind(defs, groups[1], NoneVal), called |-> FALSE]
             ELSE LET r == _eval(groups[2], defs)
                  IN  IF r.exc # "none" THEN [exc |-> r.exc, defs |-> defs, called |-> TRUE]
                      ELSE [exc |-> "none", defs |-> Bind(defs, groups[1], r.val), called |-> TRUE]

\* Variant of UndefStep without `if emit`.
UndefStep_Always(cur, payload, defs) ==
    LET name == _UNDEF(payload).groups[1]
    IN  IF name \notin DOMAIN defs THEN [exc |-> "KeyError", defs |-> defs]
        ELSE [exc |-> "none", defs |-> Unbind(defs, name)]

\* UNDEF: the mapping after the directive, as [exc, defs].
\*   if emit: del defines[_UNDEF(line).group(1)]
UndefStep(cur, payload, defs) ==
    IF ~Truthy(cur) THEN [exc |-> "none", defs |-> defs]
    ELSE LET name == _UNDEF(payload).groups[1]
         IN  IF name \notin DOMAIN defs THEN [exc |-> "KeyError", defs |-> defs]
             ELSE [exc |-> "none", defs |-> Unbind(defs, name)]

\* Variant of enter that numbers the lines from 0.
enter_ZeroBased(frames, cur, n) ==
    Append(frames, [emit |-> cur, lineno |-> n - 1])

\* Variant of enter that stores True instead of the current flag.
enter_StoresTrue(frames, cur, n) ==
    Append(frames, [emit |-> BoolVal(TRUE), lineno |-> n])

\* enter():  stack.append((emit, lineno))
enter(frames, cur, n) ==
    Append(frames, [emit |-> cur, lineno |-> n])

\* stack[-1][0]
Top(frames) ==
    frames[Len(frames)].emit

\* if defines is None: defines = {}
\* The defines argument of a call: None, or a mapping.
NoneArg ==
    [isNone |-> TRUE, map |-> <<>>]

Mapping(m) ==
    [isNone |-> FALSE, map |-> m]

\* Variant of DefaultDefines that always starts from an empty mapping.
DefaultDefines_Fresh(arg) ==
    <<>>

DefaultDefines(arg) ==
    IF arg.isNone THEN <<>> ELSE arg.map

----------------------------------------------------------------------------
(* Exceptions *)

NoErr ==
    [type |-> "none", msgline |-> 0, frames |-> <<>>]

\* Variant of SyntaxErr that numbers the lines from 0.
SyntaxErr_ZeroBased(n) ==
    [type |-> "PreprocessorError", msgline |-> n - 1, frames |-> <<>>]

\* PreprocessorError('%i: ...' % (lineno, ))
SyntaxErr(n) ==
    [type |-> "PreprocessorError", msgline |-> n, frames |-> <<>>]

\* PreprocessorError('Blocks still open at end of input ...: %r' % (stack, ))
OpenBlocksErr(frames) ==
    [type |-> "PreprocessorError", msgline |-> 0, frames |-> frames]

\* An exception of the evaluator, of the mapping or of the match object
\* that preprocess() does not catch; its message carries no line number.
Propagated(type) ==
    [type |-> type, msgline |-> 0, frames |-> <<>>]

----------------------------------------------------------------------------
(* Inputs *)

foo ==
    <<"f", "o", "o">>

baz ==
    <<"b", "a", "z">>

\* a plain line
TextLine ==
    <<"a", "\n">>

\* a comment of the text: one # only
CommentLine ==
    <<"#", "b", "\n">>

\* the marker alone: _PREFIX needs one character after it
MarkerOnlyLine ==
    <<"#", "#", "\n">>

IfTrueLine ==
    <<"#", "#", "I", "F", " ", "1", "\n">>

IfFalseLine ==
    <<"#", "#", "I", "F", " ", "0", "\n">>

\* NameError, falsy or truthy according to foo
IfFooLine ==
    <<"#", "#", "I", "F", " ", "f", "o", "o", "\n">>

ElifLine ==
    <<"#", "#", "E", "L", "I", "F", " ", "1", "\n">>

ElseLine ==
    <<"#", "#", "E", "L", "S", "E", "\n">>

EndifLine ==
    <<"#", "#", "E", "N", "D", "I", "F", "\n">>

IfdefLine ==
    <<"#", "#", "I", "F", "D", "E", "F", " ", "f", "o", "o", "\n">>

IfndefLine ==
    <<"#", "#", "I", "F", "N", "D", "E", "F", " ", "f", "o", "o", "\n">>

\* DEFINE without =expr
DefineBareLine ==
    <<"#", "#", "D", "E", "F", "I", "N", "E", " ", "f", "o", "o", "\n">>

DefineLine ==
    <<"#", "#", "D", "E", "F", "I", "N", "E", " ", "f", "o", "o", " ", "=", " ", "1", "\n">>

UndefLine ==
    <<"#", "#", "U", "N", "D", "E", "F", " ", "f", "o", "o", "\n">>

\* no keyword pattern matches
UndefineLine ==
    <<"#", "#", "U", "N", "D", "E", "F", "I", "N", "E", " ", "f", "o", "o", "\n">>

UnknownLine ==
    <<"#", "#", "F", "O", "O", "\n">>

\* The lines an input is made of.
Catalogue ==
    {TextLine,
     CommentLine,
     MarkerOnlyLine,
     IfTrueLine,
     IfFalseLine,
     IfFooLine,
     ElifLine,
     ElseLine,
     EndifLine,
     IfdefLine,
     IfndefLine,
     DefineBareLine,
     DefineLine,
     UndefLine,
     UndefineLine,
     UnknownLine}

\* The lines of the inputs made of IF / ELSE / ENDIF blocks and text.
CondCatalogue ==
    {TextLine, IfTrueLine, IfFalseLine, ElseLine, EndifLine}

\* The code of the module doctest.
DocCode ==
    <<<<"#", "#", "I", "F", "N", "D", "E", "F", " ", "b", "a", "z", " ", "#", " ", "T", "h", "i", "s", " ", "i", "s", " ", "a", " ", "c", "o", "m", "m", "e", "n", "t", "\n">>,
      <<"#", "#", " ", " ", "D", "E", "F", "I", "N", "E", " ", "b", "a", "z", " ", "=", " ", "1", " ", "+", " ", "1", " ", "#", " ", "A", "n", "o", "t", "h", "e", "r", " ", "c", "o", "m", "m", "e", "n", "t", "\n">>,
      <<"#", "#", "E", "L", "S", "E", "\n">>,
      <<"#", "#", " ", " ", "D", "E", "F", "I", "N", "E", " ", "b", "a", "z", " ", "=", " ", "b", "a", "z", " ", "+", " ", "1", "\n">>,
      <<"#", "#", "E", "N", "D", "I", "F", "\n">>,
      <<"#", "#", "I", "F", "D", "E", "F", " ", "f", "o", "o", "\n">>,
      <<"p", "r", "i", "n", "t", " ", "'", "f", "o", "o", "'", "\n">>,
      <<"#", "#", "U", "N", "D", "E", "F", " ", "f", "o", "o", "\n">>,
      <<"#", "#", "E", "L", "S", "E", "\n">>,
      <<"p", "r", "i", "n", "t", " ", "'", "b", "a", "r", "'", "\n">>,
      <<"#", "#", "E", "N", "D", "I", "F", "\n">>,
      <<"#", "#", "I", "F", " ", "b", "a", "z", " ", ">", " ", "2", " ", "#", " ", "Y", "e", "t", " ", "a", "n", "o", "t", "h", "e", "r", " ", "c", "o", "m", "m", "e", "n", "t", "\n">>,
      <<"p", "r", "i", "n", "t", " ", "'", "b", "a", "z", "'", "\n">>,
      <<"#", "#", "E", "N", "D", "I", "F", "\n">>>>

\* Further lines, for the recognition of directives.
\* the marker and whitespace: the payload is one space
BlankDirectiveLine ==
    <<"#", "#", " ", " ", "\n">>

\* IF without an expression
IfNoExprLine ==
    <<"#", "#", "I", "F", "\n">>

\* ELSE followed by a word character
ElseXLine ==
    <<"#", "#", "E", "L", "S", "E", "X", "\n">>

\* the marker alone at the end of a file without a final newline
MarkerNoNewline ==
    <<"#", "#">>

\* ELSE after whitespace, with a trailing comment
SpacedElseLine ==
    <<"#", "#", " ", " ", "E", "L", "S", "E", " ", "#", " ", "c", "\n">>

\* UNDEFINE followed by a word character
UndefinedLine ==
    <<"#", "#", "U", "N", "D", "E", "F", "I", "N", "E", "D", " ", "f", "o", "o", "\n">>

OddLines ==
    {BlankDirectiveLine,
     IfNoExprLine,
     ElseXLine,
     MarkerNoNewline,
     SpacedElseLine,
     UndefinedLine}

\* The lines of the inputs made for the recognition of directives.
LexCatalogue ==
    Catalogue \cup OddLines

\* Every line an input can contain.
AllLines ==
    LexCatalogue \cup {DocCode[i] : i \in 1..Len(DocCode)}

\* Dispatch, tabulated over the lines of the inputs.
Kind ==
    [line \in AllLines |-> Dispatch(line)]

----------------------------------------------------------------------------
(* preprocess(): one action per branch of the loop body *)

InitArgs ==
    {NoneArg, Mapping(foo :> NoneVal)}

\* The state on entry of the loop of the first call.
Init ==
    /\ pc = "loop"
    /\ lineno = 0
    /\ stack = <<>>
    /\ emit = BoolVal(TRUE)
    /\ defines \in {DefaultDefines(arg) : arg \in InitArgs}
    /\ outfile = <<>>
    /\ err = NoErr
    /\ lines = <<>>
    /\ written = {}
    /\ emits = <<>>
    /\ evalcall = FALSE
    /\ npass = 1
    /\ undefd = {}

\* Variant of Consume in which the loop goes on after an exception.
Consume_Continue(line) ==
    /\ pc \in {"loop", "raised"}
    /\ lineno' = lineno + 1
    /\ lines' = Append(lines, line)
    /\ emits' = Append(emits, emit)

\* for lineno, line in enumerate(infile.readlines(), 1)
Consume(line) ==
    /\ pc = "loop"
    /\ lineno' = lineno + 1
    /\ lines' = Append(lines, line)
    /\ emits' = Append(emits, emit)

\* An assignment to emit whose right-hand side may raise.
AssignEmit(r) ==
    /\ evalcall' = r.called
    /\ IF r.exc = "none"
       THEN emit' = r.val /\ UNCHANGED <<pc, err>>
       ELSE pc' = "raised" /\ err' = Propagated(r.exc) /\ UNCHANGED emit

\* Variant of Write that drops the line terminator.
Write_Stripped(out, line) ==
    Append(out, Take(line, Len(line) - 1))

\* outfile.write(line)
Write(out, line) ==
    Append(out, line)

\* if emit: outfile.write(line)
PlainLine(line) ==
    /\ Kind[line] = "text"
    /\ Consume(line)
    /\ IF Truthy(emit)
       THEN outfile' = Write(outfile, line) /\ written' = written \cup {lineno + 1}
       ELSE UNCHANGED <<outfile, written>>
    /\ evalcall' = FALSE
    /\ UNCHANGED <<pc, stack, emit, defines, err, npass, undefd>>

OnIF(line) ==
    /\ Kind[line] = "IF"
    /\ Consume(line)
    /\ stack' = enter(stack, emit, lineno + 1)
    /\ AssignEmit(IfEmit(Top(stack'), Payload(line), defines))
    /\ UNCHANGED <<defines, outfile, written, npass, undefd>>

OnELIF(line) ==
    /\ Kind[line] = "ELIF"
    /\ Consume(line)
    /\ IF stack = <<>>
       THEN pc' = "raised" /\ err' = SyntaxErr(lineno + 1) /\ evalcall' = FALSE
            /\ UNCHANGED emit
       ELSE AssignEmit(ElifEmit(emit, Top(stack), Payload(line), defines))
    /\ UNCHANGED <<stack, defines, outfile, written, npass, undefd>>

OnELSE(line) ==
    /\ Kind[line] = "ELSE"
    /\ Consume(line)
    /\ IF stack = <<>>
       THEN pc' = "raised" /\ err' = SyntaxErr(lineno + 1) /\ UNCHANGED emit
       ELSE emit' = ElseEmit(emit, Top(stack)) /\ UNCHANGED <<pc, err>>
    /\ evalcall' = FALSE
    /\ UNCHANGED <<stack, defines, outfile, written, npass, undefd>>

\* emit, _ = stack.pop()
OnENDIF(line) ==
    /\ Kind[line] = "ENDIF"
    /\ Consume(line)
    /\ IF stack = <<>>
       THEN pc' = "raised" /\ err' = SyntaxErr(lineno + 1) /\ UNCHANGED <<emit, stack>>
       ELSE /\ emit' = Top(stack)
            /\ stack' = Take(stack, Len(stack) - 1)
            /\ UNCHANGED <<pc, err>>
    /\ evalcall' = FALSE
    /\ UNCHANGED <<defines, outfile, written, npass, undefd>>

OnIFDEF(line) ==
    /\ Kind[line] = "IFDEF"
    /\ Consume(line)
    /\ stack' = enter(stack, emit, lineno + 1)
    /\ emit' = IfdefEmit(Top(stack'), _IFDEF(Payload(line)).groups[1], defines)
    /\ evalcall' = FALSE
    /\ UNCHANGED <<pc, defines, outfile, err, written, npass, undefd>>

OnIFNDEF(line) ==
    /\ Kind[line] = "IFNDEF"
    /\ Consume(line)
    /\ stack' = enter(stack, emit, lineno + 1)
    /\ emit' = IfndefEmit(Top(stack'), _IFNDEF(Payload(line)).groups[1], defines)
    /\ evalcall' = FALSE
    /\ UNCHANGED <<pc, defines, outfile, err, written, npass, undefd>>

OnDEFINE(line) ==
    /\ Kind[line] = "DEFINE"
    /\ Consume(line)
    /\ LET r == DefineStep(emit, Payload(line), defines)
       IN  /\ evalcall' = r.called
           /\ defines' = r.defs
           /\ IF r.exc = "none"
              THEN UNCHANGED <<pc, err>>
              ELSE pc' = "raised" /\ err' = Propagated(r.exc)
           /\ undefd' = IF r.exc = "none" /\ Truthy(emit)
                        THEN undefd \ {_DEFINE(Payload(line)).groups[1]}
                        ELSE undefd
    /\ UNCHANGED <<stack, emit, outfile, written, npass>>

OnUNDEF(line) ==
    /\ Kind[line] = "UNDEF"
    /\ Consume(line)
    /\ LET r == UndefStep(emit, Payload(line), defines)
       IN  /\ defines' = r.defs
           /\ IF r.exc = "none"
              THEN UNCHANGED <<pc, err>>
              ELSE pc' = "raised" /\ err' = Propagated(r.exc)
           /\ undefd' = IF r.exc = "none" /\ Truthy(emit)
                        THEN undefd \cup {_UNDEF(Payload(line)).groups[1]}
                        ELSE undefd
    /\ evalcall' = FALSE
    /\ UNCHANGED <<stack, emit, outfile, written, npass>>

\* raise PreprocessorError('%i: Unknown directive %r' % (lineno, directive))
OnUnknown(line) ==
    /\ Kind[line] = "unknown"
    /\ Consume(line)
    /\ pc' = "raised"
    /\ err' = SyntaxErr(lineno + 1)
    /\ evalcall' = FALSE
    /\ UNCHANGED <<stack, emit, defines, outfile, written, npass, undefd>>

\* The loop ends: if stack: raise PreprocessorError(...), else return.
EndOfInput(eof) ==
    /\ pc = "loop"
    /\ eof
    /\ IF stack # <<>>
       THEN pc' = "raised" /\ err' = OpenBlocksErr(stack)
       ELSE pc' = "done" /\ UNCHANGED err
    /\ evalcall' = FALSE
    /\ UNCHANGED <<lineno, stack, emit, defines, outfile, lines, written, emits, npass, undefd>>

\* A further call preprocess(infile, outfile, defines=defines) with a new
\* input and a new output and the mapping of the previous call.
Call ==
    /\ pc \in {"done", "raised"}
    /\ npass < MaxPasses
    /\ npass' = npass + 1
    /\ defines' = DefaultDefines(Mapping(defines))
    /\ pc' = "loop"
    /\ lineno' = 0
    /\ stack' = <<>>
    /\ emit' = BoolVal(TRUE)
    /\ outfile' = <<>>
    /\ err' = NoErr
    /\ lines' = <<>>
    /\ written' = {}
    /\ emits' = <<>>
    /\ evalcall' = FALSE
    /\ UNCHANGED undefd

CallerValues ==
    {NoneVal, IntVal(0)}

\* Between two calls the caller binds a name: defines['foo'] = None.
CallerSet ==
    /\ pc \in {"done", "raised"}
    /\ npass < MaxPasses
    /\ \E v \in CallerValues :
          /\ foo \notin DOMAIN defines
          /\ defines' = Bind(defines, foo, v)
    /\ undefd' = undefd \ {foo}
    /\ UNCHANGED <<pc, lineno, stack, emit, outfile, err, lines, written, emits, evalcall, npass>>

----------------------------------------------------------------------------
(* Specifications *)

\* readlines() ends every line but the last with its newline.
Terminated(line) ==
    line # <<>> /\ line[Len(line)] = "\n"

\* The lines that may come next in an input of at most n lines over C.
Avail(C, n) ==
    IF lineno < n /\ \A i \in 1..Len(lines) : Terminated(lines[i]) THEN C ELSE {}

\* One call on any input of at most MaxLines lines of Catalogue.
Next ==
    \/ \E line \in Avail(Catalogue, MaxLines) : PlainLine(line)
    \/ \E line \in Avail(Catalogue, MaxLines) : OnIF(line)
    \/ \E line \in Avail(Catalogue, MaxLines) : OnELIF(line)
    \/ \E line \in Avail(Catalogue, MaxLines) : OnELSE(line)
    \/ \E line \in Avail(Catalogue, MaxLines) : OnENDIF(line)
    \/ \E line \in Avail(Catalogue, MaxLines) : OnIFDEF(line)
    \/ \E line \in Avail(Catalogue, MaxLines) : OnIFNDEF(line)
    \/ \E line \in Avail(Catalogue, MaxLines) : OnDEFINE(line)
    \/ \E line \in Avail(Catalogue, MaxLines) : OnUNDEF(line)
    \/ \E line \in Avail(Catalogue, MaxLines) : OnUnknown(line)
    \/ EndOfInput(TRUE)

Spec ==
    Init /\ [][Next]_vars

\* One call on any input of at most MaxCondLines lines of CondCatalogue.
InitCond ==
    Init /\ defines = <<>>

NextCond ==
    \/ \E line \in Avail(CondCatalogue, MaxCondLines) : PlainLine(line)
    \/ \E line \in Avail(CondCatalogue, MaxCondLines) : OnIF(line)
    \/ \E line \in Avail(CondCatalogue, MaxCondLines) : OnELSE(line)
    \/ \E line \in Avail(CondCatalogue, MaxCondLines) : OnENDIF(line)
    \/ EndOfInput(TRUE)

SpecCond ==
    InitCond /\ [][NextCond]_vars

\* Successive calls on the code of the doctest, sharing one mapping.
InitDoc ==
    Init /\ defines = <<>>

DocLine ==
    IF lineno < Len(DocCode) THEN {DocCode[lineno + 1]} ELSE {}

NextDoc ==
    \/ \E line \in DocLine : PlainLine(line)
    \/ \E line \in DocLine : OnIF(line)
    \/ \E line \in DocLine : OnELSE(line)
    \/ \E line \in DocLine : OnENDIF(line)
    \/ \E line \in DocLine : OnIFDEF(line)
    \/ \E line \in DocLine : OnIFNDEF(line)
    \/ \E line \in DocLine : OnDEFINE(line)
    \/ \E line \in DocLine : OnUNDEF(line)
    \/ EndOfInput(lineno = Len(DocCode))
    \/ Call
    \/ CallerSet

SpecDoc ==
    InitDoc /\ [][NextDoc]_vars

\* One call on any input of at most MaxLexLines lines of LexCatalogue.
NextLex ==
    \/ \E line \in Avail(LexCatalogue, MaxLexLines) : PlainLine(line)
    \/ \E line \in Avail(LexCatalogue, MaxLexLines) : OnIF(line)
    \/ \E line \in Avail(LexCatalogue, MaxLexLines) : OnELIF(line)
    \/ \E line \in Avail(LexCatalogue, MaxLexLines) : OnELSE(line)
    \/ \E line \in Avail(LexCatalogue, MaxLexLines) : OnENDIF(line)
    \/ \E line \in Avail(LexCatalogue, MaxLexLines) : OnIFDEF(line)
    \/ \E line \in Avail(LexCatalogue, MaxLexLines) : OnIFNDEF(line)
    \/ \E line \in Avail(LexCatalogue, MaxLexLines) : OnDEFINE(line)
    \/ \E line \in Avail(LexCatalogue, MaxLexLines) : OnUNDEF(line)
    \/ \E line \in Avail(LexCatalogue, MaxLexLines) : OnUnknown(line)
    \/ EndOfInput(TRUE)

SpecLex ==
    Init /\ [][NextLex]_vars

----------------------------------------------------------------------------
(* Reading the history: the block structure of the lines consumed so far *)

KindAt(i) ==
    Kind[lines[i]]

Openers ==
    {"IF", "IFDEF", "IFNDEF"}

Continuations ==
    {"ELIF", "ELSE"}

\* The nesting depth after line i.
DepthAfter(i) ==
    Cardinality({j \in 1..i : KindAt(j) \in Openers})
        - Cardinality({j \in 1..i : KindAt(j) = "ENDIF"})

\* Line j lies inside the block opened at line i (not closed before j).
InBlock(i, j) ==
    /\ i < j
    /\ KindAt(i) \in Openers
    /\ \A k \in i..(j - 1) : DepthAfter(k) >= DepthAfter(i)

\* Line j is a text line or a continuation of the block opened at line i
\* itself, not of a block nested in it.
Direct(i, j) ==
    /\ InBlock(i, j)
    /\ KindAt(j) \in Continuations \cup {"text"}
    /\ DepthAfter(j) = DepthAfter(i)

\* Line k is the ENDIF that closes the block opened at line i.
Closes(i, k) ==
    /\ InBlock(i, k)
    /\ KindAt(k) = "ENDIF"
    /\ DepthAfter(k) = DepthAfter(i) - 1

\* The continuations of the block opened at line i.
ContinuationsOf(i) ==
    {k \in 1..Len(lines) : Direct(i, k) /\ KindAt(k) \in Continuations}

\* The branch of the block opened at line i that line j belongs to.
BranchOf(i, j) ==
    Cardinality({k \in ContinuationsOf(i) : k < j})

\* The text lines of branch b of the block opened at line i.
BranchText(i, b) ==
    {p \in 1..Len(lines) : Direct(i, p) /\ KindAt(p) = "text" /\ BranchOf(i, p) = b}

\* IF, then ELIFs, then at most one ELSE, which comes last.
ChainShape(i) ==
    \A k \in ContinuationsOf(i) :
        KindAt(k) = "ELSE" => \A m \in ContinuationsOf(i) : m <= k

\* The block opened at line i is IF ... ELSE ... ENDIF with the ELSE at
\* line j and the ENDIF at line k.
IfElseEndif(i, j, k) ==
    /\ KindAt(i) = "IF"
    /\ Closes(i, k)
    /\ ContinuationsOf(i) = {j}
    /\ KindAt(j) = "ELSE"

\* The step read a line: the line it read.
ReadStep ==
    pc = "loop" /\ lineno' = lineno + 1

NewLine ==
    lines'[lineno']

----------------------------------------------------------------------------
(* Claims *)

\* C1: in an IF/ELIF.../ELSE/ENDIF chain, the text lines of at most one
\* branch are written to the output.
C1_OneBranchOfChain ==
    \A i \in 1..Len(lines) :
        (KindAt(i) = "IF" /\ ChainShape(i)) =>
            \A p, q \in 1..Len(lines) :
                (/\ Direct(i, p) /\ KindAt(p) = "text" /\ p \in written
                 /\ Direct(i, q) /\ KindAt(q) = "text" /\ q \in written)
                    => BranchOf(i, p) = BranchOf(i, q)

\* C2: an ELIF read with a non-empty stack and a false emission flag does
\* not raise, and sets the flag to (before-flag of the top frame) AND (the
\* ELIF expression is truthy); the evaluator's own failures excepted.
C2_ElifTakesEffect ==
    [][(/\ ReadStep
        /\ Kind[NewLine] = "ELIF"
        /\ stack # <<>>
        /\ ~Truthy(emit))
       => LET e == _eval(ElifText(Payload(NewLine)), defines)
          IN  (~Truthy(Top(stack)) \/ e.exc = "none")
                  => /\ pc' = "loop"
                     /\ Truthy(emit') = (Truthy(Top(stack)) /\ Truthy(e.val))]_vars

\* C3: a DEFINE without =expr read under a true emission flag does not
\* raise, does not call the evaluator and binds the name to None.
C3_DefineWithoutValue ==
    [][(/\ ReadStep
        /\ Kind[NewLine] = "DEFINE"
        /\ Truthy(emit)
        /\ _DEFINE(Payload(NewLine)).groups[2] = NoGroup)
       => LET name == _DEFINE(Payload(NewLine)).groups[1]
          IN  /\ pc' = "loop"
              /\ ~evalcall'
              /\ name \in DOMAIN defines'
              /\ defines'[name] = NoneVal]_vars

\* C4 (as stated): in an accepted input, of any IF ... ELSE ... ENDIF block
\* exactly one branch has its text lines written.
C4_ExactlyOneBranch ==
    pc = "done" =>
        \A i, j, k \in 1..Len(lines) :
            IfElseEndif(i, j, k) =>
                \A p \in BranchText(i, 0), q \in BranchText(i, 1) :
                    (p \in written) # (q \in written)

\* C4 (amended): in an accepted input, of an IF ... ELSE ... ENDIF block
\* read under a true emission flag exactly one branch has its text lines
\* written, and of one read under a false emission flag neither has.
C4_ExactlyOneBranchWhenEmitting ==
    pc = "done" =>
        \A i, j, k \in 1..Len(lines) :
            IfElseEndif(i, j, k) =>
                \A p \in BranchText(i, 0), q \in BranchText(i, 1) :
                    IF Truthy(emits[i])
                    THEN (p \in written) # (q \in written)
                    ELSE p \notin written /\ q \notin written

C4_Witness ==
    /\ pc = "done"
    /\ \E i, j, k \in 1..Len(lines) :
          /\ IfElseEndif(i, j, k)
          /\ Truthy(emits[i])
          /\ \E p \in BranchText(i, 0), q \in BranchText(i, 1) :
                p \notin written /\ q \in written

\* C5: a text line inside a block that was opened under a false emission
\* flag is never written, whatever the conditions of that block.
C5_NestingGate ==
    \A i, p \in 1..Len(lines) :
        (InBlock(i, p) /\ ~Truthy(emits[i]) /\ KindAt(p) = "text")
            => p \notin written

C5_Witness ==
    \E i, p \in 1..Len(lines) :
        /\ lines[i] = IfTrueLine
        /\ ~Truthy(emits[i])
        /\ Direct(i, p)
        /\ KindAt(p) = "text"
        /\ BranchOf(i, p) = 0

\* C6: a DEFINE or UNDEF[INE] read under a false emission flag leaves the
\* definitions unchanged and does not raise.
C6_NoEffectWhenSuppressed ==
    [][(/\ ReadStep
        /\ Kind[NewLine] \in {"DEFINE", "UNDEF"}
        /\ ~Truthy(emit))
       => defines' = defines /\ pc' = "loop"]_vars

C6_Witness ==
    /\ pc = "loop"
    /\ lineno >= 1
    /\ lines[lineno] = UndefineLine
    /\ ~Truthy(emits[lineno])
    /\ foo \notin DOMAIN defines

\* C7: IFDEF name sets the flag to (flag before) AND (name is a key of the
\* definitions), IFNDEF name to (flag before) AND (name is not a key),
\* whatever value the name is bound to.
C7_IfdefIsMembership ==
    [][ReadStep =>
        /\ Kind[NewLine] = "IFDEF" =>
              Truthy(emit') = (Truthy(emit)
                  /\ _IFDEF(Payload(NewLine)).groups[1] \in DOMAIN defines)
        /\ Kind[NewLine] = "IFNDEF" =>
              Truthy(emit') = (Truthy(emit)
                  /\ _IFNDEF(Payload(NewLine)).groups[1] \notin DOMAIN defines)]_vars

C7_Witness ==
    /\ lineno >= 1
    /\ lines[lineno] = IfdefLine
    /\ foo \in DOMAIN defines
    /\ ~Truthy(defines[foo])
    /\ Truthy(emit)

\* C8: a further call starts from the mapping the previous call left; a
\* name removed by UNDEF stays absent, and IFDEF on it is false, until it
\* is bound again.
C8_DefinitionsCarryOver ==
    [][/\ npass' # npass => defines' = defines
       /\ \A n \in undefd' : n \notin DOMAIN defines'
       /\ (ReadStep /\ Kind[NewLine] = "IFDEF"
              /\ _IFDEF(Payload(NewLine)).groups[1] \in undefd)
            => ~Truthy(emit')]_vars

C8_Witness ==
    /\ npass = 3
    /\ lineno = 6
    /\ foo \in undefd
    /\ ~Truthy(emit)
    /\ baz \in DOMAIN defines

\* C9: DEFINE name = expr under a true flag binds the name to the value of
\* expr in the definitions as they stand before the directive; the first
\* block of the doctest leaves baz = 2 on the first call and adds 1 to baz
\* on every further call.
C9_Binds ==
    (/\ ReadStep
     /\ Kind[NewLine] = "DEFINE"
     /\ Truthy(emit)
     /\ _DEFINE(Payload(NewLine)).groups[2] # NoGroup)
    => LET name == _DEFINE(Payload(NewLine)).groups[1]
           r == PyEval(_DEFINE(Payload(NewLine)).groups[2], defines)
       IN  r.exc = "none" =>
              /\ pc' = "loop"
              /\ DOMAIN defines' = DOMAIN defines \cup {name}
              /\ defines'[name] = r.val
              /\ \A n \in DOMAIN defines \ {name} : defines'[n] = defines[n]

C9_BazCounts ==
    /\ (npass = 1 /\ lineno < 2) => baz \notin DOMAIN defines
    /\ (npass > 1 /\ lineno < 4) => baz \in DOMAIN defines /\ defines[baz] = IntVal(npass)
    /\ lineno >= 4 => baz \in DOMAIN defines /\ defines[baz] = IntVal(npass + 1)

C9_DefineEvaluatesInCurrentDefinitions ==
    []C9_BazCounts /\ [][C9_Binds]_vars

C9_Witness ==
    /\ npass = 3
    /\ pc = "done"
    /\ defines[baz] = IntVal(4)

\* C10: on an input without a line that starts with ## the call does not
\* raise and the output is the input, line for line.
C10_PassThrough ==
    (\A i \in 1..Len(lines) : ~StartsWith(lines[i], <<"#", "#">>))
        => pc # "raised" /\ outfile = lines

C10_Witness ==
    /\ pc = "done"
    /\ outfile = <<TextLine, CommentLine, TextLine>>

\* The lines among the first n read that are text and were read under a
\* true emission flag, in the order of the input.
RECURSIVE EmittedText(_)
EmittedText(n) ==
    IF n = 0 THEN <<>>
    ELSE IF KindAt(n) = "text" /\ Truthy(emits[n])
         THEN Append(EmittedText(n - 1), lines[n])
         ELSE EmittedText(n - 1)

\* C11: at every point of a call the output is the sequence, in input
\* order and unaltered, of the text lines read so far under a true emission
\* flag; no directive line is written.
C11_OutputIsEmittedText ==
    /\ outfile = EmittedText(Len(lines))
    /\ written = {i \in 1..Len(lines) : KindAt(i) = "text" /\ Truthy(emits[i])}

C11_Witness ==
    /\ lineno = 4
    /\ outfile = <<CommentLine, TextLine>>
    /\ written = {1, 2}
    /\ KindAt(3) # "text"
    /\ KindAt(4) = "text"

\* C12: an ELIF, ELSE or ENDIF read while the stack is empty raises
\* PreprocessorError with the number of that line; the empty stack is not
\* popped.
C12_ContinuationOnEmptyStack ==
    [][(/\ ReadStep
        /\ Kind[NewLine] \in {"ELIF", "ELSE", "ENDIF"}
        /\ stack = <<>>)
       => /\ pc' = "raised"
          /\ err'.type = "PreprocessorError"
          /\ err'.msgline = lineno'
          /\ stack' = <<>>]_vars

C12_Witness ==
    /\ pc = "raised"
    /\ lineno = 3
    /\ KindAt(3) = "ENDIF"
    /\ KindAt(2) = "ENDIF"
    /\ err = SyntaxErr(3)

\* The openers read so far whose block is not closed.
StillOpen ==
    {i \in 1..Len(lines) :
        KindAt(i) \in Openers /\ ~\E k \in 1..Len(lines) : Closes(i, k)}

\* The loop ends on this step.
EndStep ==
    pc = "loop" /\ pc' # "loop" /\ lineno' = lineno

\* C13: when the input ends with a non-empty stack the call raises
\* PreprocessorError reporting every open frame with the number of the line
\* that opened it; the call returns only when every block is closed.
C13_OpenBlocksAtEnd ==
    [][EndStep =>
        IF stack # <<>>
        THEN /\ pc' = "raised"
             /\ err'.type = "PreprocessorError"
             /\ Len(err'.frames) = Cardinality(StillOpen)
             /\ {err'.frames[f].lineno : f \in 1..Len(err'.frames)} = StillOpen
             /\ \A f, g \in 1..Len(err'.frames) :
                   f < g => err'.frames[f].lineno < err'.frames[g].lineno
        ELSE pc' = "done" /\ StillOpen = {}]_vars

C13_Witness ==
    /\ pc = "raised"
    /\ Len(err.frames) = 2
    /\ err.frames[1].lineno = 1
    /\ err.frames[2].lineno = 3
    /\ lineno = 4

\* C14: an UNDEF or UNDEFINE read under a true emission flag that names
\* an absent key raises PreprocessorError with the number of that line.
C14_UndefAbsentIsPreprocessorError ==
    [][(/\ ReadStep
        /\ Kind[NewLine] = "UNDEF"
        /\ Truthy(emit)
        /\ _UNDEF(Payload(NewLine)).groups[1] \notin DOMAIN defines)
       => /\ pc' = "raised"
          /\ err'.type = "PreprocessorError"
          /\ err'.msgline = lineno']_vars

\* The text of a line after the marker and the whitespace that follows it.
AfterMarker(line) ==
    Drop(line, 2 + SpanLen(Drop(line, 2), Space))

\* None of the keyword patterns matches the text.
NoKeyword(text) ==
    /\ ~_IF(text).matched
    /\ ~_ELIF(text).matched
    /\ ~_ELSE(text).matched
    /\ ~_ENDIF(text).matched
    /\ ~_IFDEF(text).matched
    /\ ~_IFNDEF(text).matched
    /\ ~_DEFINE(text).matched
    /\ ~_UNDEF(text).matched

\* The step raised PreprocessorError with the number of the line read and
\* wrote nothing.
RaisedAtLine ==
    /\ pc' = "raised"
    /\ err'.type = "PreprocessorError"
    /\ err'.msgline = lineno'
    /\ outfile' = outfile

\* C15 (as stated): every line that starts with ## and whose remaining text
\* matches no keyword pattern raises PreprocessorError with its line
\* number, under a true or a false emission flag, and is never written.
C15_UnknownDirectiveRaises ==
    [][(/\ ReadStep
        /\ StartsWith(NewLine, <<"#", "#">>)
        /\ NoKeyword(AfterMarker(NewLine)))
       => RaisedAtLine]_vars

\* C15 (amended): every line that matches _PREFIX (## followed by at least
\* one character other than the newline) and whose payload matches no
\* keyword pattern raises PreprocessorError with its line number, under a
\* true or a false emission flag, and is never written; a line made of the
\* marker alone is text: written under a true flag, dropped under a false
\* one, without an error.
C15_UnknownPayloadRaises ==
    [][ReadStep =>
        /\ (_PREFIX(NewLine).matched /\ NoKeyword(Payload(NewLine)))
              => RaisedAtLine
        /\ (StartsWith(NewLine, <<"#", "#">>) /\ ~_PREFIX(NewLine).matched)
              => /\ pc' = "loop"
                 /\ outfile' = IF Truthy(emit) THEN Append(outfile, NewLine) ELSE outfile
                 /\ UNCHANGED <<emit, stack, defines>>]_vars

C15_Witness ==
    /\ pc = "raised"
    /\ lineno = 2
    /\ lines[2] \in {BlankDirectiveLine, IfNoExprLine, ElseXLine, UndefinedLine}
    /\ ~Truthy(emits[2])
    /\ err = SyntaxErr(2)
    /\ outfile = <<>>

\* C16: an exception ends the call at the line that raised it: that line
\* writes nothing, what was written before stays in the output, and no
\* further line is read or written.
C16_ErrorAbortsPass ==
    [][/\ (ReadStep /\ pc' = "raised")
             => outfile' = outfile /\ written' = written
       /\ pc = "raised"
             => UNCHANGED <<pc, err, lineno, lines, outfile, written, stack, emit, defines>>]_vars

C16_Witness ==
    /\ pc = "raised"
    /\ err.type = "NameError"
    /\ lineno = 2
    /\ outfile = <<TextLine>>

\* The emission flag right after line k was processed.
FlagAfter(k) ==
    IF k < Len(lines) THEN emits[k + 1] ELSE emit

C17_Restored ==
    \A i, k \in 1..Len(lines) :
        Closes(i, k) => FlagAfter(k) = emits[i]

C17_PopsOne ==
    (ReadStep /\ Kind[NewLine] = "ENDIF" /\ stack # <<>>)
        => /\ pc' = "loop"
           /\ stack' = Take(stack, Len(stack) - 1)
           /\ emit' = stack[Len(stack)].emit

\* C17: an ENDIF read with a non-empty stack pops exactly one frame and
\* sets the emission flag to the value it had just before the opener of
\* the block it closes was read, whatever the block contains.
C17_EndifRestoresFlag ==
    []C17_Restored /\ [][C17_PopsOne]_vars

C17_Witness ==
    /\ pc = "loop"
    /\ lineno = 4
    /\ \E i \in 1..3 :
          /\ Closes(i, 4)
          /\ ~Truthy(emits[i])
          /\ ContinuationsOf(i) # {}
          /\ emit = emits[i]

\* C18: within a call the definitions change only on a DEFINE or
\* UNDEF[INE] read under a true emission flag; a text line also leaves the
\* emission flag and the stack unchanged.
C18_OnlyDefineAndUndefWrite ==
    [][pc = "loop" =>
        /\ defines' # defines
              => /\ ReadStep
                 /\ Kind[NewLine] \in {"DEFINE", "UNDEF"}
                 /\ Truthy(emit)
        /\ (ReadStep /\ Kind[NewLine] = "text")
              => emit' = emit /\ stack' = stack]_vars

C18_Witness ==
    /\ pc = "loop"
    /\ lineno = 3
    /\ lines[1] = DefineLine
    /\ lines[2] = IfFooLine
    /\ lines[3] = UndefLine
    /\ Truthy(emits[3])
    /\ foo \notin DOMAIN defines

\* C19: with an empty stack the emission flag is true; the bottom frame
\* stores a true flag; when the emission flag is true every frame stores a
\* true flag; above a frame that stores a false flag every frame stores a
\* false flag.
C19_FlagAndStack ==
    /\ stack = <<>> => Truthy(emit)
    /\ stack # <<>> => Truthy(stack[1].emit)
    /\ Truthy(emit) => \A f \in 1..Len(stack) : Truthy(stack[f].emit)
    /\ \A f, g \in 1..Len(stack) :
          (f < g /\ ~Truthy(stack[f].emit)) => ~Truthy(stack[g].emit)

C19_Witness ==
    /\ pc = "loop"
    /\ Len(stack) = 2
    /\ ~Truthy(stack[2].emit)
    /\ KindAt(lineno) = "ELSE"
    /\ ~Truthy(emits[lineno])
    /\ ~Truthy(emit)

\* C20: an IF read under a false emission flag, an ELIF read while the top
\* frame stores a false flag and a DEFINE read under a false emission flag
\* do not call the evaluator and do not raise.
C20_NoEvalWhenSuppressed ==
    [][ReadStep =>
        /\ (Kind[NewLine] = "IF" /\ ~Truthy(emit))
              => ~evalcall' /\ pc' = "loop"
        /\ (Kind[NewLine] = "ELIF" /\ stack # <<>> /\ ~Truthy(Top(stack)))
              => ~evalcall' /\ pc' = "loop"
        /\ (Kind[NewLine] = "DEFINE" /\ ~Truthy(emit))
              => ~evalcall' /\ pc' = "loop"]_vars

C20_Witness ==
    /\ pc = "loop"
    /\ lineno >= 2
    /\ lines[lineno] = IfFooLine
    /\ foo \notin DOMAIN defines
    /\ ~Truthy(emits[lineno])

====
